---- MODULE Spec2Model ----
(***************************************************************************)
(* Model of the two pure functions of src/local.py that carry the          *)
(* algorithmic content of the library:                                     *)
(*                                                                         *)
(*   compute_affinities(seg, nhood)           src/local.py 272-312         *)
(*   evaluate(gt_labels, pred_labels, th)     src/local.py 315-372         *)
(*                                                                         *)
(* A label image is a record [shape |-> <<H, W>>, px |-> row-major pixel   *)
(* sequence], so px is what ndarray.flatten() returns and pixel (r, c)     *)
(* (0-based) is px[r * W + c + 1].                                         *)
(*                                                                         *)
(* Numbers.  IoU values, thresholds and the returned ratios are exact      *)
(* rationals <<numerator, denominator>>; comparisons cross-multiply.  The  *)
(* float32/float64 rounding of the source is not modelled: every value     *)
(* compared here is a ratio of pixel counts of a few pixels, far apart     *)
(* from each other relative to float precision.                            *)
(*                                                                         *)
(* Exceptions are outcomes: a call ends "ok" or with the name of the       *)
(* Python exception that leaves the function.                              *)
(***************************************************************************)
EXTENDS Integers, Sequences, FiniteSets, TLC

(* ------------------------------ bounds -------------------------------- *)
\* an image has 1..MaxH rows and 1..MaxW columns
MaxH == 2
MaxW == 2
\* label values are 0..MaxLabel (0 is background)
MaxLabel == 2
\* thresholds are the reduced fractions n/d in [0, 1] with d <= MaxThDen
MaxThDen == 4
\* offset components are -MaxOffset..MaxOffset
MaxOffset == 4
\* an offset vector has 1..MaxRank components
MaxRank == 3
\* a neighborhood has 1..MaxEdges offsets
MaxEdges == 1

(* ----------------------------- helpers -------------------------------- *)
RECURSIVE GCD(_, _)
GCD(a, b) == IF b = 0 THEN a ELSE GCD(b, a % b)

RECURSIVE Factorial(_)
Factorial(n) == IF n <= 1 THEN 1 ELSE n * Factorial(n - 1)

Max2(a, b) == IF a >= b THEN a ELSE b
Min2(a, b) == IF a <= b THEN a ELSE b

\* rational comparisons, denominators positive
RatGt(a, b) == a[1] * b[2] > b[1] * a[2]
RatLeq(a, b) == a[1] * b[2] <= b[1] * a[2]
RatEq(a, b) == a[1] * b[2] = b[1] * a[2]

(* --------------------------- input domains ---------------------------- *)
Labels == 0..MaxLabel
Shapes == (1..MaxH) \X (1..MaxW)
LabelImages ==
    UNION {[shape : {s}, px : [1..(s[1] * s[2]) -> Labels]] : s \in Shapes}
Thresholds ==
    {t \in (0..MaxThDen) \X (1..MaxThDen) : t[1] <= t[2] /\ GCD(t[1], t[2]) = 1}
\* th: float = 0.5
DefaultTh == <<1, 2>>

\* one offset vector: 1..MaxRank components
Offsets == UNION {[1..r -> (-MaxOffset)..MaxOffset] : r \in 1..MaxRank}
\* nhood: a list of 1..MaxEdges offset vectors
Neighborhoods == UNION {[1..n -> Offsets] : n \in 1..MaxEdges}

VARIABLES
    pc,           \* "idle", "evaluated" or "affinities": the call that was made
    gt_labels,    \* evaluate: argument gt_labels
    pred_labels,  \* evaluate: argument pred_labels
    th,           \* evaluate: argument th
    result,       \* evaluate: how the call ended, with tp, fp, fn and the ratios
    prev,         \* the call before this one (arguments and result), if any
    rel,          \* how this call's arguments come from prev's
    seg,          \* compute_affinities: argument seg
    nhood,        \* compute_affinities: argument nhood
    affinity      \* compute_affinities: how the call ended, with the map

evalVars == <<gt_labels, pred_labels, th, result, prev, rel>>
affVars == <<seg, nhood, affinity>>
vars == <<pc, gt_labels, pred_labels, th, result, prev, rel, seg, nhood, affinity>>

(* ------------------------------ evaluate ------------------------------ *)
\* np.unique(a): the distinct values of a
Unique(px) == {px[i] : i \in DOMAIN px}

\* np.unique(a, return_counts=True): the count of value l in a
CountOf(px, l) == Cardinality({i \in DOMAIN px : px[i] = l})

\* np.max(a) of a non-empty array
ArrayMax(px) == CHOOSE m \in Unique(px) : \A l \in Unique(px) : l <= m

\* mutant: the labels used as they come
RelabelNone(px) == px

\* skimage relabel_sequential(label_field)[0]: the non-zero labels, in sorted
\* order, become 1..k; 0 stays 0
RelabelSequential(px) ==
    [i \in DOMAIN px |->
        IF px[i] = 0 THEN 0
        ELSE Cardinality({l \in Unique(px) : l # 0 /\ l <= px[i]})]

\* np.unique(overlay, return_counts=True, axis=1): the number of pixels
\* where pred is u and gt is v (both arrays flattened)
OverlayCount(pred_rel, gt_rel, u, v) ==
    Cardinality({i \in DOMAIN pred_rel : pred_rel[i] = u /\ gt_rel[i] = v})

\* mutant: the union counted as the sum of the two sizes
IoUOverSum(c, gt_count, pred_count) == <<c, gt_count + pred_count>>

\* iou = c / (gt_labels_count_dict[v] + pred_labels_count_dict[u] - c)
IoU(c, gt_count, pred_count) == <<c, gt_count + pred_count - c>>

\* mutant: the table starts from ones instead of zeros
IoUMatOnes(pred_rel, gt_rel) ==
    [vu \in (1..ArrayMax(gt_rel)) \X (1..ArrayMax(pred_rel)) |->
        LET c == OverlayCount(pred_rel, gt_rel, vu[2], vu[1])
        IN  IF c = 0 THEN <<1, 1>>
            ELSE IoU(c, CountOf(gt_rel, vu[1]), CountOf(pred_rel, vu[2]))]

\* iouMat after the loop over the overlay and after [1:, 1:]: entry (v, u)
\* for gt id v and pred id u, 0 where the two never overlay
IoUMat(pred_rel, gt_rel) ==
    [vu \in (1..ArrayMax(gt_rel)) \X (1..ArrayMax(pred_rel)) |->
        LET c == OverlayCount(pred_rel, gt_rel, vu[2], vu[1])
        IN  IF c = 0 THEN <<0, 1>>
            ELSE IoU(c, CountOf(gt_rel, vu[1]), CountOf(pred_rel, vu[2]))]

\* mutant: iouMat >= th
AboveThInclusive(iou, t) == ~RatGt(t, iou)

\* elementwise iouMat > th
AboveTh(iou, t) == RatGt(iou, t)

\* mutant: the threshold term left out, only the IoU is paid for
CostIoUOnly(iou, t, num_matches, den) == - iou[1] * (den \div iou[2])

\* costs = -(iouMat > th).astype(float) - iouMat / (2 * num_matches),
\* one entry, multiplied by 2 * num_matches * den where every IoU
\* denominator divides den
Cost(iou, t, num_matches, den) ==
    - (IF AboveTh(iou, t) THEN 2 * num_matches * den ELSE 0)
    - iou[1] * (den \div iou[2])

\* the assignments linear_sum_assignment chooses among: min(rows, cols)
\* pairs, no row and no column used twice
Assignments(num_gt, num_pred) ==
    IF num_gt <= num_pred
    THEN {{<<g, f[g]>> : g \in 1..num_gt} :
            f \in {h \in [1..num_gt -> 1..num_pred] :
                    \A a, b \in 1..num_gt : a # b => h[a] # h[b]}}
    ELSE {{<<f[p], p>> : p \in 1..num_pred} :
            f \in {h \in [1..num_pred -> 1..num_gt] :
                    \A a, b \in 1..num_pred : a # b => h[a] # h[b]}}

RECURSIVE TotalCost(_, _, _, _, _)
TotalCost(asg, iouMat, t, num_matches, den) ==
    IF asg = {} THEN 0
    ELSE LET e == CHOOSE x \in asg : TRUE
         IN  Cost(iouMat[e], t, num_matches, den)
             + TotalCost(asg \ {e}, iouMat, t, num_matches, den)

\* scipy linear_sum_assignment(costs): any assignment of minimal total cost
LinearSumAssignment(iouMat, t, num_gt, num_pred, den) ==
    LET n == Min2(num_gt, num_pred)
        all == Assignments(num_gt, num_pred)
    IN  {a \in all :
            \A b \in all :
                TotalCost(a, iouMat, t, n, den) <= TotalCost(b, iouMat, t, n, den)}

\* mutant: the assigned pairs at or below the threshold are counted
CountMatchBelow(asg, iouMat, t) ==
    Cardinality({e \in asg : ~RatGt(iouMat[e], t)})

\* tp = np.count_nonzero(iouMat[gt_ind, pred_ind] > th)
CountMatchOk(asg, iouMat, t) == Cardinality({e \in asg : AboveTh(iouMat[e], t)})

\* lines 366-372: the counts and the three ratios from tp
Metrics(tp, num_gt, num_pred) ==
    LET fp == num_pred - tp
        fn == num_gt - tp
        counts == [tp |-> tp, fp |-> fp, fn |-> fn,
                   precision |-> <<tp, Max2(1, tp + fp)>>,
                   recall |-> <<tp, Max2(1, tp + fn)>>]
    IN  IF tp + fp + fn = 0
        THEN [outcome |-> "ZeroDivisionError"] @@ counts
        ELSE [outcome |-> "ok", accuracy |-> <<tp, tp + fp + fn>>] @@ counts

\* the true-positive counts the branch at line 358 can produce
TruePositives(iouMat, t, num_gt, num_pred, den) ==
    IF Min2(num_gt, num_pred) > 0 /\ \E e \in DOMAIN iouMat : AboveTh(iouMat[e], t)
    THEN {CountMatchOk(a, iouMat, t) :
            a \in LinearSumAssignment(iouMat, t, num_gt, num_pred, den)}
    ELSE {0}

\* evaluate(gt, pred, t): the set of ways the call can end
Evaluate(gt, pred, t) ==
    IF Len(gt.px) # Len(pred.px)
    THEN \* np.array of two rows of different length
         {[outcome |-> "ValueError"]}
    ELSE LET pred_rel == RelabelSequential(pred.px)
             gt_rel == RelabelSequential(gt.px)
             num_pred == ArrayMax(pred_rel)
             num_gt == ArrayMax(gt_rel)
             iouMat == IoUMat(pred_rel, gt_rel)
         IN  {Metrics(tp, num_gt, num_pred) :
                tp \in TruePositives(iouMat, t, num_gt, num_pred,
                                     Factorial(Len(gt.px)))}

(* ------------------------- compute_affinities ------------------------- *)
\* a[start:stop] on an axis of length n, start >= 0: the indices selected,
\* in order (0-based); a negative stop counts from the end
PySlice(start, stop, n) ==
    LET lo == Min2(start, n)
        hi == IF stop < 0 THEN Max2(stop + n, 0) ELSE Min2(stop, n)
    IN  [k \in 1..Max2(hi - lo, 0) |-> lo + k - 1]

\* max(0, -nhood[e, d]) : min(shape[d], shape[d] - nhood[e, d])
DestSlice(off, n) == PySlice(Max2(0, -off), Min2(n, n - off), n)

\* max(0, nhood[e, d]) : min(shape[d], shape[d] + nhood[e, d])
SrcSlice(off, n) == PySlice(Max2(0, off), Min2(n, n + off), n)

\* numpy broadcasting of two axis lengths; -1 when they do not broadcast
Broadcast(a, b) ==
    IF a = b THEN a ELSE IF a = 1 THEN b ELSE IF b = 1 THEN a ELSE -1

\* an array with axis length r can be stored into a slot with axis length a
Storable(r, a) == r = a \/ r = 1

\* seg[r, c], 0-based
At(img, r, c) == img.px[r * img.shape[2] + c + 1]

\* mutant: the two background tests left out
SameLabel(a, b) == IF a = b THEN 1 ELSE 0

\* (seg[p] == seg[q]) * (seg[p] > 0) * (seg[q] > 0) for two pixel values
SameInstance(a, b) == IF a = b /\ a > 0 /\ b > 0 THEN 1 ELSE 0

\* one pass of the loop body, lines 281-310, for the offset (dy, dx): the
\* plane affinity[e] in row-major order; raises is TRUE (a ValueError) when
\* the two slices of seg do not broadcast or the product does not fit the slot
AffinityPlane(img, dy, dx) ==
    LET H == img.shape[1]
        W == img.shape[2]
        dr == DestSlice(dy, H)
        dc == DestSlice(dx, W)
        sr == SrcSlice(dy, H)
        sc == SrcSlice(dx, W)
        rr == Broadcast(Len(dr), Len(sr))
        rc == Broadcast(Len(dc), Len(sc))
        \* index into an operand axis of length n for result index k
        Ix(k, n) == IF n = 1 THEN 1 ELSE k
        \* the product array at result position (i, j), 1-based
        Prod(i, j) ==
            SameInstance(
                At(img, dr[Ix(i, Len(dr))], dc[Ix(j, Len(dc))]),
                At(img, sr[Ix(i, Len(sr))], sc[Ix(j, Len(sc))]))
    IN  IF rr < 0 \/ rc < 0 \/ ~Storable(rr, Len(dr)) \/ ~Storable(rc, Len(dc))
        THEN [raises |-> TRUE, plane |-> <<>>]
        ELSE [raises |-> FALSE, plane |->
             [k \in 1..(H * W) |->
                LET r == (k - 1) \div W
                    c == (k - 1) % W
                IN  IF /\ \E i \in DOMAIN dr : dr[i] = r
                       /\ \E j \in DOMAIN dc : dc[j] = c
                    THEN LET i == CHOOSE x \in DOMAIN dr : dr[x] = r
                             j == CHOOSE x \in DOMAIN dc : dc[x] = c
                         IN  Prod(Ix(i, rr), Ix(j, rc))
                    ELSE 0]]

\* the loop over the edges: the first edge that raises ends the call
RECURSIVE AffinityLoop(_, _, _, _)
AffinityLoop(img, nh, e, acc) ==
    IF e > Len(nh) THEN [outcome |-> "ok", affinity |-> acc]
    ELSE IF Len(nh[e]) < 2
    THEN \* nhood[e, 1] on an axis of length 1
         [outcome |-> "IndexError"]
    ELSE LET p == AffinityPlane(img, nh[e][1], nh[e][2])
         IN  IF p.raises THEN [outcome |-> "ValueError"]
             ELSE AffinityLoop(img, nh, e + 1, Append(acc, p.plane))

\* compute_affinities(seg, nhood): the set of ways the call can end
ComputeAffinities(img, nh) ==
    IF \E a, b \in DOMAIN nh : Len(nh[a]) # Len(nh[b])
    THEN \* np.array(nhood) of a ragged list raises ValueError; numpy before
         \* 1.24 builds a 1-D object array and nhood.shape[1] raises IndexError
         {[outcome |-> "ValueError"], [outcome |-> "IndexError"]}
    ELSE {AffinityLoop(img, nh, 1, <<>>)}

(* ------------------------------ callers ------------------------------- *)
NoImage == [shape |-> <<0, 0>>, px |-> <<>>]
NoResult == [outcome |-> "none"]
NoCall == [outcome |-> "none"]

\* the bijections of the positive labels, 0 kept as 0
Relabelings ==
    {f \in [Labels -> Labels] :
        f[0] = 0 /\ \A a, b \in Labels : a # b => f[a] # f[b]}

PermuteLabels(img, f) ==
    [shape |-> img.shape, px |-> [i \in DOMAIN img.px |-> f[img.px[i]]]]

ThisCall ==
    [gt_labels |-> gt_labels, pred_labels |-> pred_labels, th |-> th,
     result |-> result]

Init ==
    /\ pc = "idle"
    /\ gt_labels = NoImage
    /\ pred_labels = NoImage
    /\ th = DefaultTh
    /\ result = NoResult
    /\ prev = NoCall
    /\ rel = "none"
    /\ seg = NoImage
    /\ nhood = <<>>
    /\ affinity = NoResult

\* a first call evaluate(gt, pred, t)
CallEvaluate ==
    /\ pc = "idle"
    /\ \E gt \in LabelImages, pred \in LabelImages, t \in Thresholds :
        /\ gt_labels' = gt
        /\ pred_labels' = pred
        /\ th' = t
        /\ \E r \in Evaluate(gt, pred, t) : result' = r
    /\ prev' = NoCall
    /\ rel' = "none"
    /\ pc' = "evaluated"
    /\ UNCHANGED affVars

\* the same pair evaluated again after relabeling each image on its own
CallRelabeled ==
    /\ pc = "evaluated"
    /\ rel = "none"
    /\ \E f \in Relabelings, g \in Relabelings :
        /\ gt_labels' = PermuteLabels(gt_labels, f)
        /\ pred_labels' = PermuteLabels(pred_labels, g)
        /\ \E r \in Evaluate(gt_labels', pred_labels', th) : result' = r
    /\ prev' = ThisCall
    /\ rel' = "relabeled"
    /\ UNCHANGED <<pc, th>>
    /\ UNCHANGED affVars

\* the same pair evaluated again with a threshold at least as large
CallRaisedThreshold ==
    /\ pc = "evaluated"
    /\ rel = "none"
    /\ \E t \in Thresholds :
        /\ RatLeq(th, t)
        /\ th' = t
        /\ \E r \in Evaluate(gt_labels, pred_labels, t) : result' = r
    /\ prev' = ThisCall
    /\ rel' = "raised"
    /\ UNCHANGED <<pc, gt_labels, pred_labels>>
    /\ UNCHANGED affVars

\* a call compute_affinities(img, nh)
CallComputeAffinities ==
    /\ pc = "idle"
    /\ \E img \in LabelImages, nh \in Neighborhoods :
        /\ seg' = img
        /\ nhood' = nh
        /\ \E r \in ComputeAffinities(img, nh) : affinity' = r
    /\ pc' = "affinities"
    /\ UNCHANGED evalVars

NextEvaluate == CallEvaluate \/ CallRelabeled \/ CallRaisedThreshold

NextAffinities == CallComputeAffinities

Next == NextEvaluate \/ NextAffinities

SpecEvaluate == Init /\ [][NextEvaluate]_vars

SpecAffinities == Init /\ [][NextAffinities]_vars

Spec == Init /\ [][Next]_vars

(* ------------------------- state descriptions ------------------------- *)
\* the number of distinct non-zero labels of an image
Instances(img) == Cardinality(Unique(img.px) \ {0})

SameShape == gt_labels.shape = pred_labels.shape

\* the call reached the counts tp, fp, fn (it did not fail on its arguments)
Counted(r) == r.outcome \in {"ok", "ZeroDivisionError"}

IsOne(q) == q[1] = q[2] /\ q[2] > 0

\* the IoU of every (gt instance, pred instance) pair of the current arguments
CurrentIoU ==
    IoUMat(RelabelSequential(pred_labels.px), RelabelSequential(gt_labels.px))

\* no pixel is non-zero in both images
Disjoint ==
    \A i \in DOMAIN gt_labels.px : gt_labels.px[i] = 0 \/ pred_labels.px[i] = 0

(* ------------------------------- claims ------------------------------- *)
\* C1: evaluating a label image with k >= 1 instances against itself at the
\* default threshold gives tp = k, fp = fn = 0 and returns
\* precision = recall = accuracy = 1.
PerfectMatch ==
    (/\ pc = "evaluated"
     /\ gt_labels = pred_labels
     /\ th = DefaultTh
     /\ Instances(gt_labels) >= 1)
    => /\ result.outcome = "ok"
       /\ result.tp = Instances(gt_labels)
       /\ result.fp = 0
       /\ result.fn = 0
       /\ IsOne(result.precision)
       /\ IsOne(result.recall)
       /\ IsOne(result.accuracy)

PerfectMatchWitness ==
    /\ pc = "evaluated"
    /\ gt_labels = pred_labels
    /\ th = DefaultTh
    /\ Instances(gt_labels) = 2
    /\ result.outcome = "ok"
    /\ result.tp = 2

\* C2: when both images are entirely background, tp = fp = fn = 0 and the
\* call does not fail on the division tp / (tp + fp + fn).
AllBackgroundHandled ==
    (/\ pc = "evaluated"
     /\ SameShape
     /\ Instances(gt_labels) = 0
     /\ Instances(pred_labels) = 0)
    => /\ Counted(result)
       /\ result.tp = 0 /\ result.fp = 0 /\ result.fn = 0
       /\ result.outcome # "ZeroDivisionError"

\* C3: two label images of different shape, also when they have the same
\* number of pixels, end in an error and never return precision, recall and
\* accuracy.  (Any exception is taken for the shape error here.)
ShapeMismatchRejected ==
    (pc = "evaluated" /\ ~SameShape) => result.outcome # "ok"

\* C4: relabeling the positive labels of each image by a bijection of its
\* own leaves tp, fp, fn, precision, recall and accuracy as they were.
RelabelInvariance ==
    (pc = "evaluated" /\ rel = "relabeled" /\ SameShape) => result = prev.result

RelabelInvarianceWitness ==
    /\ pc = "evaluated"
    /\ rel = "relabeled"
    /\ SameShape
    /\ gt_labels # prev.gt_labels
    /\ pred_labels # prev.pred_labels
    /\ Unique(gt_labels.px) # Unique(prev.gt_labels.px)
    /\ result.outcome = "ok"
    /\ result.tp = 1
    /\ result.fp = 1

\* C5 as stated: a pair whose IoU equals the threshold is never a true
\* positive, and with two gt and two pred instances, one pair at IoU = th
\* and the other pair (the other gt with the other pred) at IoU > th, tp = 1.
Above(m) == {e \in DOMAIN m : RatGt(m[e], th)}

BoundaryPairs(m) ==
    /\ DOMAIN m = (1..2) \X (1..2)
    /\ \E v \in 1..2, u \in 1..2 :
        /\ RatEq(m[<<v, u>>], th)
        /\ RatGt(m[<<3 - v, 3 - u>>], th)

ThresholdMonotone ==
    (pc = "evaluated" /\ rel = "raised" /\ SameShape)
    => result.tp <= prev.result.tp

ThresholdMonotoneWitness ==
    /\ pc = "evaluated"
    /\ rel = "raised"
    /\ SameShape
    /\ RatGt(th, prev.th)
    /\ prev.result.tp = 2
    /\ result.tp = 1

\* C7: when no pixel is non-zero in both images, tp = 0, fp is the number
\* of distinct non-zero pred labels and fn the number of distinct non-zero
\* gt labels.
NoOverlap ==
    (pc = "evaluated" /\ SameShape /\ Disjoint)
    => /\ result.tp = 0
       /\ result.fp = Instances(pred_labels)
       /\ result.fn = Instances(gt_labels)

NoOverlapWitness ==
    /\ pc = "evaluated"
    /\ SameShape
    /\ Disjoint
    /\ Instances(pred_labels) = 2
    /\ Instances(gt_labels) = 1
    /\ result.outcome = "ok"
    /\ result.fp = 2
    /\ result.fn = 1

\* pixel (r, c) lies inside seg
Inside(r, c) == r \in 0..(seg.shape[1] - 1) /\ c \in 0..(seg.shape[2] - 1)

SegPixels == (0..(seg.shape[1] - 1)) \X (0..(seg.shape[2] - 1))

\* affinity[e, r, c] of the returned map
AffinityAt(e, r, c) == affinity.affinity[e][r * seg.shape[2] + c + 1]

\* C8: in a returned map, for every 2D offset e and every pixel p with p and
\* p + offset_e inside the image, affinity[e, p] is 1 exactly when the two
\* pixels carry the same non-zero label, and 0 otherwise.
InBoundsRule ==
    (pc = "affinities" /\ affinity.outcome = "ok")
    => \A e \in DOMAIN nhood : Len(nhood[e]) = 2 =>
        \A p \in SegPixels :
            LET q == <<p[1] + nhood[e][1], p[2] + nhood[e][2]>>
            IN  Inside(q[1], q[2]) =>
                    AffinityAt(e, p[1], p[2]) =
                        (IF /\ At(seg, p[1], p[2]) = At(seg, q[1], q[2])
                            /\ At(seg, p[1], p[2]) > 0
                            /\ At(seg, q[1], q[2]) > 0
                         THEN 1 ELSE 0)

\* a returned 2 x 2 map for the offset (0, 1): both pixel pairs lie inside
\* the image, one inside an instance and one inside the background
InBoundsRuleWitness ==
    /\ pc = "affinities"
    /\ affinity.outcome = "ok"
    /\ seg.shape = <<2, 2>>
    /\ nhood = <<(<<0, 1>>)>>
    /\ seg.px = <<2, 2, 0, 0>>
    /\ AffinityAt(1, 0, 0) = 1
    /\ AffinityAt(1, 1, 0) = 0

\* C9: for every 2D offset, of any sign and magnitude, the call returns a
\* map, and every pixel whose partner p + offset_e falls outside the image
\* has affinity 0 (so an offset larger than the image gives an all-zero plane).
OutOfBoundsZero ==
    (pc = "affinities" /\ \A e \in DOMAIN nhood : Len(nhood[e]) = 2)
    => /\ affinity.outcome = "ok"
       /\ \A e \in DOMAIN nhood : \A p \in SegPixels :
            ~Inside(p[1] + nhood[e][1], p[2] + nhood[e][2])
                => AffinityAt(e, p[1], p[2]) = 0

\* C10: an offset vector whose length is not the rank of the image (2) ends
\* the call in an error; no affinity map is returned.
RankMismatchRejected ==
    (pc = "affinities" /\ \E e \in DOMAIN nhood : Len(nhood[e]) # 2)
    => affinity.outcome # "ok"

\* a set of (gt, pred) pairs that uses no gt and no pred instance twice
IsMatching(S) ==
    \A e, f \in S : e # f => (e[1] # f[1] /\ e[2] # f[2])

\* the largest number of pairs of E that can be chosen so that no gt and no
\* pred instance is used twice
MaxMatching(E) ==
    LET sizes == {Cardinality(S) : S \in {T \in SUBSET E : IsMatching(T)}}
    IN  CHOOSE k \in sizes : \A j \in sizes : j <= k

\* C11: for same-shape images and every threshold th >= 0, tp is the size
\* of a maximum-cardinality matching of the pairs with IoU > th: whichever
\* minimum-cost assignment the solver returns, it gives up no above-threshold
\* pair to gain IoU elsewhere.
AssignmentSaturates ==
    (pc = "evaluated" /\ SameShape /\ th[1] >= 0)
    => result.tp = MaxMatching(Above(CurrentIoU))

\* three of the four pairs of two gt and two pred instances are above the
\* threshold, the pair of largest IoU among them shares an instance with
\* each of the other two, and both of the others are taken: tp = 2
AssignmentSaturatesWitness ==
    /\ pc = "evaluated"
    /\ SameShape
    /\ th[1] > 0
    /\ LET m == CurrentIoU
       IN  /\ DOMAIN m = (1..2) \X (1..2)
           /\ Cardinality(Above(m)) = 3
           /\ \E e \in Above(m) : \A f \in Above(m) \ {e} :
                /\ RatGt(m[e], m[f])
                /\ (e[1] = f[1] \/ e[2] = f[2])
    /\ result.outcome = "ok"
    /\ result.tp = 2

====
